---- MODULE Spec2Model ----
(***************************************************************************)
(* Model of dowhy/gcm/stochastic_models.py: the three StochasticModel      *)
(* variants (ScipyDistribution, EmpiricalDistribution,                     *)
(* BayesianGaussianMixtureDistribution), the continuous-family search of   *)
(* ScipyDistribution and the component-count search of the mixture model.  *)
(*                                                                         *)
(* Python strings that the code parses (the `shapes` attribute) are        *)
(* sequences of one-character strings; a dict is the sequence of its       *)
(* [key, value] items in insertion order; floats are integers in units of  *)
(* 1e-3 where the code compares them.                                      *)
(***************************************************************************)
EXTENDS Integers, Sequences, FiniteSets, TLC

VARIABLES
    model,      \* the StochasticModel instance the caller holds
    last,       \* the latest call on the instance and how it ended
    selIn,      \* find_suitable_continuous_distribution: the call's input
    selOut,     \* find_suitable_continuous_distribution: how the call ended
    mixIn,      \* __get_optimal_number_of_components: the call's input
    mixOut      \* __get_optimal_number_of_components: how the call ended

vars == <<model, last, selIn, selOut, mixIn, mixOut>>

(***************************************************************************)
(* Bounds of the model.                                                    *)
(***************************************************************************)
\* Data sets handed to fit are numbered 1 .. MaxSamples.
MaxSamples == 2
\* draw_samples is called with num_samples in 1 .. MaxDraw.
MaxDraw == 2
\* fit of the mixture model sees data with int(sqrt(rows / 2)) up to MaxRoot.
MaxRoot == 7

SampleIds == 1 .. MaxSamples

(***************************************************************************)
(* Python values.                                                          *)
(***************************************************************************)
None == "None"
\* np.inf, above every finite divergence of the model
inf == 1000000

\* An exception: its Python class and what raised it; NoError when none.
Error(kind, why) == [kind |-> kind, why |-> why]
NoError == Error("", "")

Min(S) == CHOOSE x \in S : \A y \in S : x <= y

\* sep.join(parts)
RECURSIVE join(_, _)
join(sep, parts) ==
    IF parts = <<>> THEN <<>>
    ELSE IF Len(parts) = 1 THEN parts[1]
    ELSE parts[1] \o sep \o join(sep, Tail(parts))

\* s.split(sep), sep one character
RECURSIVE split(_, _)
split(s, sep) ==
    LET at == {i \in 1 .. Len(s) : s[i] = sep}
    IN  IF at = {} THEN <<s>>
        ELSE <<SubSeq(s, 1, Min(at) - 1)>>
                 \o split(SubSeq(s, Min(at) + 1, Len(s)), sep)

\* s.strip()
RECURSIVE lstrip(_)
lstrip(s) == IF s # <<>> /\ Head(s) = " " THEN lstrip(Tail(s)) ELSE s
RECURSIVE rstrip(_)
rstrip(s) ==
    IF s # <<>> /\ s[Len(s)] = " " THEN rstrip(SubSeq(s, 1, Len(s) - 1)) ELSE s
strip(s) == rstrip(lstrip(s))

\* d[k] = v on an insertion-ordered dict
dict_set(d, k, v) ==
    IF \E i \in DOMAIN d : d[i].key = k
    THEN [i \in DOMAIN d |-> IF d[i].key = k THEN [key |-> k, value |-> v] ELSE d[i]]
    ELSE Append(d, [key |-> k, value |-> v])
\* list(d.keys()), list(d.values()), k in d
dict_keys(d) == [i \in DOMAIN d |-> d[i].key]
dict_values(d) == [i \in DOMAIN d |-> d[i].value]
dict_has(d, k) == \E i \in DOMAIN d : d[i].key = k

\* {x.name: x for x in xs}
RECURSIVE dict_by_name(_)
dict_by_name(xs) ==
    IF xs = <<>> THEN <<>>
    ELSE dict_set(dict_by_name(SubSeq(xs, 1, Len(xs) - 1)),
                  xs[Len(xs)].name, xs[Len(xs)])

(***************************************************************************)
(* The distribution families (scipy.stats objects).                        *)
(***************************************************************************)
s_loc == <<"l", "o", "c">>
s_scale == <<"s", "c", "a", "l", "e">>
s_df == <<"d", "f">>
s_a == <<"a">>
s_b == <<"b">>
s_mu == <<"m", "u">>
s_k == <<"k">>

\* The shape parameters a family declares, by the family's name.
ShapeArgs(name) ==
    CASE name = "t" -> <<s_df>>
      [] name = "beta" -> <<s_a, s_b>>
      [] name = "poisson" -> <<s_mu>>
      [] name = "custom" -> <<s_k>>
      [] OTHER -> <<>>

\* A family object: its name, its `shapes` string (', '.join of the declared
\* shape parameters, None written <<>>: both are false in `if shapes:`) and
\* the class it is an instance of.
Family(name) ==
    [name |-> name,
     shapes |-> join(<<",", " ">>, ShapeArgs(name)),
     base |-> IF name = "poisson" THEN "rv_discrete" ELSE "rv_continuous"]

\* dir(scipy.stats), restricted to the families of the model, in sorted order
scipy_stats_dir == <<"beta", "laplace", "norm", "poisson", "rayleigh", "t", "uniform">>

\* A family object a caller defines: exported by scipy.stats under no name.
custom == Family("custom")

\* lines 20-29: the seed list extended by every rv_continuous of scipy.stats.
\* `d not in _CONTINUOUS_DISTRIBUTIONS` compares the attribute name d with
\* family objects and is true for every d.
ContinuousList ==
    <<Family("norm"), Family("laplace"), Family("t"), Family("uniform"),
      Family("rayleigh")>>
    \o SelectSeq([i \in DOMAIN scipy_stats_dir |-> Family(scipy_stats_dir[i])],
                 LAMBDA f : f.base = "rv_continuous")

DiscreteList ==
    SelectSeq([i \in DOMAIN scipy_stats_dir |-> Family(scipy_stats_dir[i])],
              LAMBDA f : f.base = "rv_discrete")

_CONTINUOUS_DISTRIBUTIONS == dict_by_name(ContinuousList)
_DISCRETE_DISTRIBUTIONS == dict_by_name(DiscreteList)

ContinuousNames == {ContinuousList[i].name : i \in DOMAIN ContinuousList}

(***************************************************************************)
(* ScipyDistribution.map_scipy_distribution_parameters_to_names            *)
(***************************************************************************)
\* shape_names without the strip()
shape_names_unstripped(scipy_distribution) ==
    IF scipy_distribution.shapes # <<>>
    THEN split(scipy_distribution.shapes, ",")
    ELSE <<>>

\* [name.strip() for name in shapes.split(',')] or []
shape_names(scipy_distribution) ==
    IF scipy_distribution.shapes # <<>>
    THEN LET parts == split(scipy_distribution.shapes, ",")
         IN  [i \in DOMAIN parts |-> strip(parts[i])]
    ELSE <<>>

\* the parameter_list of the method, <<>> paired with the error when the
\* family is in neither catalog
parameter_names(scipy_distribution) ==
    IF dict_has(_DISCRETE_DISTRIBUTIONS, scipy_distribution.name)
    THEN [raised |-> NoError, names |-> shape_names(scipy_distribution) \o <<s_loc>>]
    ELSE IF dict_has(_CONTINUOUS_DISTRIBUTIONS, scipy_distribution.name)
    THEN [raised |-> NoError, names |-> shape_names(scipy_distribution) \o <<s_loc, s_scale>>]
    ELSE [raised |-> Error("ValueError", "not found"), names |-> <<>>]

RECURSIVE zip_into(_, _, _, _)
zip_into(d, names, parameters, i) ==
    IF i > Len(names) THEN d
    ELSE zip_into(dict_set(d, names[i], parameters[i]), names, parameters, i + 1)

\* [raised, value]: the error kind raised ("" when none) and the dict returned
map_scipy_distribution_parameters_to_names(scipy_distribution, parameters) ==
    LET pl == parameter_names(scipy_distribution)
    IN  IF pl.raised # NoError THEN [raised |-> pl.raised, value |-> <<>>]
        ELSE IF Len(parameters) < Len(pl.names)
        THEN [raised |-> Error("IndexError", "tuple index"), value |-> <<>>]
        ELSE [raised |-> NoError, value |-> zip_into(<<>>, pl.names, parameters, 1)]

(***************************************************************************)
(* What the libraries do on one call: the inputs of the searches.          *)
(***************************************************************************)
\* distribution.fit(samples): the fitted tuple, the shape parameters first,
\* then loc (and scale); its values depend on the family and the data set.
FitTuple(scipy_distribution, X) ==
    [i \in 1 .. Len(ShapeArgs(scipy_distribution.name))
                  + (IF scipy_distribution.base = "rv_discrete" THEN 1 ELSE 2)
        |-> 10 * X + i]

\* Divergence estimates, in units of 1e-3: below, at and above the threshold.
DivValues == {5, 10, 20}

\* What happens to one candidate family: the error kind raised by
\* distribution.fit, by distribution.rvs and by
\* estimate_kl_divergence_continuous ("" when none), and the divergence.
Candidate(fit, rvs, kl, divergence) ==
    [fit |-> fit, rvs |-> rvs, kl |-> kl, divergence |-> divergence]
CandidateOutcomes ==
    {Candidate("ValueError", "", "", 0), Candidate("RuntimeError", "", "", 0),
     Candidate("", "ValueError", "", 0), Candidate("", "", "ValueError", 0)}
    \cup {Candidate("", "", "", d) : d \in DivValues}

Envs == [ContinuousNames -> CandidateOutcomes]

(***************************************************************************)
(* ScipyDistribution.find_suitable_continuous_distribution                 *)
(***************************************************************************)
\* divergence_threshold: float = 10 ** -2, in units of 1e-3
divergence_threshold == 10

\* a bare `except:` in the place of `except ValueError:`
fit_error_is_caught_any(kind) == kind # ""
\* except ValueError: (line 99)
fit_error_is_caught(kind) == kind = "ValueError"
\* `<=` in the place of `<`
good_enough_or_equal(divergence) == divergence <= divergence_threshold
\* if divergence < divergence_threshold: (line 116)
good_enough(divergence) == divergence < divergence_threshold
\* `>=` in the place of `>`
is_better_or_equal(currently_smallest_divergence, divergence) ==
    currently_smallest_divergence >= divergence
\* if currently_smallest_divergence > divergence: (line 122)
is_better(currently_smallest_divergence, divergence) ==
    currently_smallest_divergence > divergence

\* The loop of lines 91-125 from the i-th catalog value on. st holds the
\* three currently_* locals, the families fitted and scored so far, and the
\* exception that left the loop.
RECURSIVE selector_loop(_, _, _, _, _)
selector_loop(values, i, st, env, X) ==
    IF i > Len(values) THEN st
    ELSE
      LET distribution == values[i]
          o == env[distribution.name]
          params == FitTuple(distribution, X)
          st1 == [st EXCEPT !.fitted = Append(@, distribution.name)]
          st2 == [st1 EXCEPT !.scored = Append(@, distribution.name)]
      IN  IF o.fit # "" /\ fit_error_is_caught(o.fit)
          THEN selector_loop(values, i + 1, st1, env, X)
          ELSE IF o.fit # "" THEN [st1 EXCEPT !.raised = Error(o.fit, "fit")]
          ELSE IF o.rvs # "" THEN [st1 EXCEPT !.raised = Error(o.rvs, "rvs")]
          ELSE IF o.kl # "" THEN [st1 EXCEPT !.raised = Error(o.kl, "kl")]
          ELSE IF good_enough(o.divergence)
          THEN [st2 EXCEPT !.currently_best_distribution = distribution,
                           !.currently_best_parameters = params]
          ELSE IF is_better(st.currently_smallest_divergence, o.divergence)
          THEN selector_loop(values, i + 1,
                   [st2 EXCEPT !.currently_best_distribution = distribution,
                               !.currently_best_parameters = params,
                               !.currently_smallest_divergence = o.divergence],
                   env, X)
          ELSE selector_loop(values, i + 1, st2, env, X)

\* lines 86-125: the locals when the loop is left
selector_run(env, X) ==
    selector_loop(dict_values(_CONTINUOUS_DISTRIBUTIONS), 1,
                  [currently_best_distribution |-> Family("norm"),
                   currently_best_parameters |-> <<0, 1>>,
                   currently_smallest_divergence |-> inf,
                   fitted |-> <<>>, scored |-> <<>>, raised |-> NoError],
                  env, X)

\* [raised, distribution, parameters]: the exception that reached the caller,
\* or the pair returned
find_suitable_continuous_distribution(env, X) ==
    LET st == selector_run(env, X)
        named == map_scipy_distribution_parameters_to_names(
                     st.currently_best_distribution, st.currently_best_parameters)
    IN  IF st.raised # NoError
        THEN [raised |-> st.raised, distribution |-> None, parameters |-> <<>>]
        ELSE [raised |-> named.raised,
              distribution |-> st.currently_best_distribution.name,
              parameters |-> named.value]

(***************************************************************************)
(* BayesianGaussianMixtureDistribution.__get_optimal_number_of_components  *)
(***************************************************************************)
\* int(np.sqrt(rows / 2))
int_sqrt_half(rows) ==
    CHOOSE k \in 0 .. rows : 2 * k * k <= rows /\ 2 * (k + 1) * (k + 1) > rows

\* Silhouette coefficients: below, at and above the initial current_best.
ScoreValues == {-1, 0, 1, 2}

\* What happens to one candidate count: the error kind raised by
\* KMeans(...).fit and by silhouette_score ("" when none), and the score.
Clustering(kmeans, silhouette, coefficient) ==
    [kmeans |-> kmeans, silhouette |-> silhouette, coefficient |-> coefficient]
ClusteringOutcomes ==
    {Clustering("ValueError", "", 0), Clustering("MemoryError", "", 0),
     Clustering("", "ValueError", 0)}
    \cup {Clustering("", "", c) : c \in ScoreValues}

\* except ValueError: (line 206)
clustering_error_is_caught(kind) == kind = "ValueError"
\* `>=` in the place of `>`
is_improvement_or_equal(coefficient, current_best) == coefficient >= current_best
\* if coefficient > current_best: (line 197)
is_improvement(coefficient, current_best) == coefficient > current_best
\* `>` in the place of `>=`
is_plateau_late(num_best_in_succession) == num_best_in_succession > 3
\* if num_best_in_succession >= 3: (line 204)
is_plateau(num_best_in_succession) == num_best_in_succession >= 3

\* The loop of lines 193-205 from candidate i on; outcomes[i - 1] is what
\* happens to candidate i (the first candidate is 2). st holds the three
\* locals, the candidates scored so far and the exception that left the try.
RECURSIVE components_loop(_, _, _, _)
components_loop(i, stop, st, outcomes) ==
    IF i >= stop THEN st
    ELSE
      LET o == outcomes[i - 1]
          failed == IF o.kmeans # "" THEN Error(o.kmeans, "kmeans")
                    ELSE IF o.silhouette # "" THEN Error(o.silhouette, "silhouette")
                    ELSE NoError
          st1 == IF is_improvement(o.coefficient, st.current_best)
                 THEN [st EXCEPT !.current_best = o.coefficient,
                                 !.current_best_num_components = i,
                                 !.num_best_in_succession = 0,
                                 !.scored = Append(@, i)]
                 ELSE [st EXCEPT !.num_best_in_succession = @ + 1,
                                 !.scored = Append(@, i)]
      IN  IF failed # NoError THEN [st EXCEPT !.raised = failed]
          ELSE IF is_plateau(st1.num_best_in_succession) THEN st1
          ELSE components_loop(i + 1, stop, st1, outcomes)

\* lines 189-205: the locals when the try block is left
components_run(rows, outcomes) ==
    components_loop(2, int_sqrt_half(rows),
                    [current_best |-> 0,
                     current_best_num_components |-> 1,
                     num_best_in_succession |-> 0,
                     scored |-> <<>>, raised |-> NoError],
                    outcomes)

\* [raised, value]: the exception that reached the caller, or the count returned
get_optimal_number_of_components(rows, outcomes) ==
    LET st == components_run(rows, outcomes)
    IN  IF st.raised # NoError /\ ~clustering_error_is_caught(st.raised.kind)
        THEN [raised |-> st.raised, value |-> 0]
        ELSE [raised |-> NoError, value |-> st.current_best_num_components]

(***************************************************************************)
(* The instances.  Next to the fields of the classes an instance records   *)
(* its history: the constructor arguments, whether fit was ever called on  *)
(* it, whether the parameters it holds were estimated from data, and, for  *)
(* the result of clone(), whether fit had been called on its source.       *)
(***************************************************************************)
NoInstance ==
    [cls |-> None,
     distribution |-> None, parameters |-> <<>>, fixed_parameters |-> FALSE,
     data |-> <<>>,         \* <<>> is None, <<X>> is data set X
     gmm_model |-> <<>>,    \* <<>> is None, <<n, X>> a mixture of n components fit to X
     ctor_distribution |-> None, ctor_parameters |-> <<>>,
     fitted |-> FALSE, estimated |-> FALSE,
     is_clone |-> FALSE, source_fitted |-> FALSE]

ScipyDistribution_init(scipy_distribution, parameters) ==
    [NoInstance EXCEPT !.cls = "ScipyDistribution",
                       !.distribution = scipy_distribution,
                       !.parameters = parameters,
                       !.fixed_parameters = Len(parameters) > 0,
                       !.ctor_distribution = scipy_distribution,
                       !.ctor_parameters = parameters]

\* `and` in the place of `or`
ScipyDistribution_not_fit_and(self) ==
    Len(self.parameters) = 0 /\ self.distribution = None

\* if len(self.__parameters) == 0 or self.__distribution is None: (line 48)
ScipyDistribution_not_fit(self) ==
    Len(self.parameters) = 0 \/ self.distribution = None

\* [raised, rows]; rvs is the error kind distribution.rvs raises, "" when none
ScipyDistribution_draw_samples(self, num_samples, rvs) ==
    IF ScipyDistribution_not_fit(self)
    THEN [raised |-> Error("ValueError", "not fit"), rows |-> 0]
    ELSE IF rvs # "" THEN [raised |-> Error(rvs, "rvs"), rows |-> 0]
    ELSE [raised |-> NoError, rows |-> num_samples]

\* fit that estimates nothing once the instance holds a family
ScipyDistribution_fit_once(self, X, lib) ==
    LET called == [self EXCEPT !.fitted = TRUE]
    IN
    IF self.distribution = None
    THEN LET best == find_suitable_continuous_distribution(lib.env, X)
         IN  IF best.raised # NoError
             THEN [self |-> called, raised |-> best.raised, searched |-> TRUE]
             ELSE [self |-> [called EXCEPT !.distribution = best.distribution,
                                           !.parameters = best.parameters,
                                           !.estimated = TRUE],
                   raised |-> NoError, searched |-> TRUE]
    ELSE IF ~self.fixed_parameters /\ self.parameters = <<>>
    THEN LET named == map_scipy_distribution_parameters_to_names(
                          Family(self.distribution),
                          FitTuple(Family(self.distribution), X))
         IN  IF lib.fit # ""
             THEN [self |-> called, raised |-> Error(lib.fit, "fit"), searched |-> FALSE]
             ELSE IF named.raised # NoError
             THEN [self |-> called, raised |-> named.raised, searched |-> FALSE]
             ELSE [self |-> [called EXCEPT !.parameters = named.value,
                                           !.estimated = TRUE],
                   raised |-> NoError, searched |-> FALSE]
    ELSE [self |-> called, raised |-> NoError, searched |-> FALSE]

\* [self, raised, searched]: the instance after the call, the exception that
\* reached the caller and whether the family search ran. lib is what the
\* library does during the call: lib.env to the candidates of the search,
\* lib.fit (an error kind, "" when none) in the pinned family's fit.
ScipyDistribution_fit(self, X, lib) ==
    LET called == [self EXCEPT !.fitted = TRUE]
    IN
    IF self.distribution = None
    THEN LET best == find_suitable_continuous_distribution(lib.env, X)
         IN  IF best.raised # NoError
             THEN [self |-> called, raised |-> best.raised, searched |-> TRUE]
             ELSE [self |-> [called EXCEPT !.distribution = best.distribution,
                                           !.parameters = best.parameters,
                                           !.estimated = TRUE],
                   raised |-> NoError, searched |-> TRUE]
    ELSE IF ~self.fixed_parameters
    THEN LET named == map_scipy_distribution_parameters_to_names(
                          Family(self.distribution),
                          FitTuple(Family(self.distribution), X))
         IN  IF lib.fit # ""
             THEN [self |-> called, raised |-> Error(lib.fit, "fit"), searched |-> FALSE]
             ELSE IF named.raised # NoError
             THEN [self |-> called, raised |-> named.raised, searched |-> FALSE]
             ELSE [self |-> [called EXCEPT !.parameters = named.value,
                                           !.estimated = TRUE],
                   raised |-> NoError, searched |-> FALSE]
    ELSE [self |-> called, raised |-> NoError, searched |-> FALSE]

ScipyDistribution_clone(self) ==
    IF self.fixed_parameters
    THEN ScipyDistribution_init(self.distribution, self.parameters)
    ELSE ScipyDistribution_init(self.distribution, <<>>)

EmpiricalDistribution_init == [NoInstance EXCEPT !.cls = "EmpiricalDistribution"]

EmpiricalDistribution_fit(self, X) ==
    [self EXCEPT !.data = <<X>>, !.fitted = TRUE]

EmpiricalDistribution_draw_samples(self, num_samples) ==
    IF self.data = <<>>
    THEN [raised |-> Error("RuntimeError", "not fit"), rows |-> 0]
    ELSE [raised |-> NoError, rows |-> num_samples]

EmpiricalDistribution_clone(self) == EmpiricalDistribution_init

BayesianGaussianMixtureDistribution_init ==
    [NoInstance EXCEPT !.cls = "BayesianGaussianMixtureDistribution"]

\* [self, raised]; rows and outcomes are the input of the component search
BayesianGaussianMixtureDistribution_fit(self, X, rows, outcomes) ==
    LET called == [self EXCEPT !.fitted = TRUE]
        n == get_optimal_number_of_components(rows, outcomes)
    IN  IF n.raised # NoError
        THEN [self |-> called, raised |-> n.raised]
        ELSE [self |-> [called EXCEPT !.gmm_model = <<n.value, X>>],
              raised |-> NoError]

BayesianGaussianMixtureDistribution_draw_samples(self, num_samples) ==
    IF self.gmm_model = <<>>
    THEN [raised |-> Error("RuntimeError", "not fit"), rows |-> 0]
    ELSE [raised |-> NoError, rows |-> num_samples]

BayesianGaussianMixtureDistribution_clone(self) ==
    BayesianGaussianMixtureDistribution_init

(***************************************************************************)
(* The calls a caller makes on the instance it holds: the one it           *)
(* constructed, or the one a clone() call returned in its place.           *)
(***************************************************************************)
\* Constructor arguments.
p_loc_scale == <<[key |-> s_loc, value |-> 5], [key |-> s_scale, value |-> 2]>>
p_scale == <<[key |-> s_scale, value |-> 2]>>
CtorDistributions == {None, "norm", "t", "beta", "poisson", "custom"}
CtorParameters == {<<>>, p_loc_scale, p_scale}

Constructed ==
    {ScipyDistribution_init(d, p) : d \in CtorDistributions, p \in CtorParameters}
    \cup {EmpiricalDistribution_init, BayesianGaussianMixtureDistribution_init}

\* Library behaviours a fit call of an instance meets. In the search one
\* family meets any outcome o1 and every other family one outcome o2; the
\* pinned family's fit raises any of FitKinds. A call reads the one or the
\* other.
FitKinds == {"", "ValueError", "RuntimeError"}
RvsKinds == {"", "TypeError"}
FitEnvs ==
    {[n \in ContinuousNames |-> IF n = f THEN o1 ELSE o2] :
        f \in ContinuousNames, o1 \in CandidateOutcomes, o2 \in CandidateOutcomes}
FitLibs(self) ==
    IF self.distribution = None
    THEN {[env |-> e, fit |-> ""] : e \in FitEnvs}
    ELSE {[env |-> <<>>, fit |-> k] : k \in FitKinds}

NumCandidates(rows) ==
    IF int_sqrt_half(rows) > 2 THEN int_sqrt_half(rows) - 2 ELSE 0
\* Row counts: for every value k of int(sqrt(rows / 2)) up to MaxRoot the
\* least and the greatest row count with that value.
RowChoices ==
    UNION {{2 * k * k, 2 * (k + 1) * (k + 1) - 1} : k \in 0 .. MaxRoot}
\* The inputs of the component search with r rows.
MixInputs(r) ==
    [rows : {r}, outcomes : [1 .. NumCandidates(r) -> ClusteringOutcomes]]
\* Component searches a fit call of an instance meets: no candidate, or
\* one candidate of the largest range meets any outcome o1 and every other
\* candidate scores o2.
MixFitInputs ==
    {[rows |-> 4, outcomes |-> <<>>]}
    \cup {[rows |-> 2 * MaxRoot * MaxRoot,
           outcomes |-> [j \in 1 .. MaxRoot - 2 |-> IF j = k THEN o1 ELSE o2]] :
            k \in 1 .. MaxRoot - 2, o1 \in ClusteringOutcomes,
            o2 \in {Clustering("", "", 0), Clustering("", "", 1)}}

\* The latest call: the method, whether fit had been called on the instance
\* before, whether it held a family before, whether the call changed its
\* family and its parameters, the exception that reached the caller, the
\* rows returned, whether a search ran, and the data set.
Call(op, self, after, raised, rows, searched, X) ==
    [op |-> op,
     was_fitted |-> self.fitted,
     had_family |-> self.distribution # None,
     changed_family |-> after.distribution # self.distribution,
     changed_parameters |-> after.parameters # self.parameters,
     raised |-> raised, rows |-> rows, searched |-> searched, X |-> X]
NoCall == Call("", NoInstance, NoInstance, NoError, 0, FALSE, 0)

Idle == UNCHANGED <<selIn, selOut, mixIn, mixOut>>

ScipyFit ==
    /\ model.cls = "ScipyDistribution"
    /\ \E X \in SampleIds, lib \in FitLibs(model) :
         LET r == ScipyDistribution_fit(model, X, lib)
         IN  /\ model' = r.self
             /\ last' = Call("fit", model, r.self, r.raised, 0, r.searched, X)
    /\ Idle

EmpiricalFit ==
    /\ model.cls = "EmpiricalDistribution"
    /\ \E X \in SampleIds :
         /\ model' = EmpiricalDistribution_fit(model, X)
         /\ last' = Call("fit", model, model, NoError, 0, FALSE, X)
    /\ Idle

MixtureFit ==
    /\ model.cls = "BayesianGaussianMixtureDistribution"
    /\ \E X \in SampleIds, in \in MixFitInputs :
         LET r == BayesianGaussianMixtureDistribution_fit(model, X, in.rows, in.outcomes)
         IN  /\ model' = r.self
             /\ last' = Call("fit", model, r.self, r.raised, 0, TRUE, X)
    /\ Idle

ScipyDraw ==
    /\ model.cls = "ScipyDistribution"
    /\ \E n \in 1 .. MaxDraw, rvs \in RvsKinds :
         LET r == ScipyDistribution_draw_samples(model, n, rvs)
         IN  last' = Call("draw_samples", model, model, r.raised, r.rows, FALSE, 0)
    /\ UNCHANGED model
    /\ Idle

EmpiricalDraw ==
    /\ model.cls = "EmpiricalDistribution"
    /\ \E n \in 1 .. MaxDraw :
         LET r == EmpiricalDistribution_draw_samples(model, n)
         IN  last' = Call("draw_samples", model, model, r.raised, r.rows, FALSE, 0)
    /\ UNCHANGED model
    /\ Idle

MixtureDraw ==
    /\ model.cls = "BayesianGaussianMixtureDistribution"
    /\ \E n \in 1 .. MaxDraw :
         LET r == BayesianGaussianMixtureDistribution_draw_samples(model, n)
         IN  last' = Call("draw_samples", model, model, r.raised, r.rows, FALSE, 0)
    /\ UNCHANGED model
    /\ Idle

\* The history of the instance clone() returns: what it was constructed
\* from, and whether the parameters handed to its constructor were estimated.
Cloned(self, new) ==
    [new EXCEPT !.is_clone = TRUE,
                !.source_fitted = self.fitted,
                !.estimated = self.estimated /\ new.parameters # <<>>]

Clone(new) ==
    /\ model' = Cloned(model, new)
    /\ last' = Call("clone", model, model, NoError, 0, FALSE, 0)
    /\ Idle

ScipyClone ==
    /\ model.cls = "ScipyDistribution"
    /\ Clone(ScipyDistribution_clone(model))

EmpiricalClone ==
    /\ model.cls = "EmpiricalDistribution"
    /\ Clone(EmpiricalDistribution_clone(model))

MixtureClone ==
    /\ model.cls = "BayesianGaussianMixtureDistribution"
    /\ Clone(BayesianGaussianMixtureDistribution_clone(model))

SearchIdle == [state |-> "idle"]
NoSelIn == [env |-> <<>>, X |-> 0]
NoMixIn == [rows |-> 0, outcomes |-> <<>>]

Init ==
    /\ model \in Constructed
    /\ last = NoCall
    /\ selIn = NoSelIn /\ selOut = SearchIdle
    /\ mixIn = NoMixIn /\ mixOut = SearchIdle

Next ==
    \/ ScipyFit
    \/ EmpiricalFit
    \/ MixtureFit
    \/ ScipyDraw
    \/ EmpiricalDraw
    \/ MixtureDraw
    \/ ScipyClone
    \/ EmpiricalClone
    \/ MixtureClone

Spec == Init /\ [][Next]_vars

(***************************************************************************)
(* The two searches as functions of what the libraries do: fit on a new    *)
(* ScipyDistribution() and on a new BayesianGaussianMixtureDistribution(), *)
(* over every input of the bounds.                                         *)
(***************************************************************************)
SelInputs == {[env |-> e, X |-> X] : e \in Envs, X \in SampleIds}

InitSearch ==
    /\ model = NoInstance /\ last = NoCall
    /\ \/ /\ selIn \in SelInputs /\ selOut = [state |-> "ready"]
          /\ mixIn = NoMixIn /\ mixOut = SearchIdle
       \/ /\ \E r \in RowChoices : mixIn \in MixInputs(r)
          /\ mixOut = [state |-> "ready"]
          /\ selIn = NoSelIn /\ selOut = SearchIdle

SearchFamily ==
    /\ selOut.state = "ready"
    /\ selOut' = [state |-> "done",
                  run |-> selector_run(selIn.env, selIn.X),
                  result |-> find_suitable_continuous_distribution(selIn.env, selIn.X),
                  fit |-> ScipyDistribution_fit(ScipyDistribution_init(None, <<>>),
                                                selIn.X, [env |-> selIn.env, fit |-> ""])]
    /\ UNCHANGED <<model, last, selIn, mixIn, mixOut>>

SearchComponents ==
    /\ mixOut.state = "ready"
    /\ mixOut' = [state |-> "done",
                  run |-> components_run(mixIn.rows, mixIn.outcomes),
                  result |-> get_optimal_number_of_components(mixIn.rows, mixIn.outcomes),
                  fit |-> BayesianGaussianMixtureDistribution_fit(
                              BayesianGaussianMixtureDistribution_init, 1,
                              mixIn.rows, mixIn.outcomes)]
    /\ UNCHANGED <<model, last, selIn, selOut, mixIn>>

NextSearch == SearchFamily \/ SearchComponents

SpecSearch == InitSearch /\ [][NextSearch]_vars

(***************************************************************************)
(* What the claims are stated in.                                          *)
(***************************************************************************)
Max(S) == CHOOSE x \in S : \A y \in S : x >= y

\* The continuous catalog in insertion order: the five seeds, then the rest.
CatalogOrder == <<"norm", "laplace", "t", "uniform", "rayleigh", "beta">>

\* The parameter names a family declares: its shape parameters, then loc for
\* a discrete family and loc, scale for a continuous one.
Declared(name) ==
    ShapeArgs(name) \o (IF name = "poisson" THEN <<s_loc>> ELSE <<s_loc, s_scale>>)

\* The Parameter Set of family `name` estimated from data set X.
Estimated(name, X) ==
    [i \in 1 .. Len(Declared(name)) |-> [key |-> Declared(name)[i], value |-> 10 * X + i]]

p_loc0_scale1 == <<[key |-> s_loc, value |-> 0], [key |-> s_scale, value |-> 1]>>

IsScipy == model.cls = "ScipyDistribution"
AutoSelecting ==
    IsScipy /\ model.ctor_distribution = None /\ model.ctor_parameters = <<>>

\* C1 as stated: draw_samples on an instance on which fit was never called
\* raises the not-fitted error and returns no samples, however the instance
\* was constructed.
C1_DrawBeforeFitAlwaysRaises ==
    (last.op = "draw_samples" /\ ~last.was_fitted) =>
        /\ last.raised.why = "not fit"
        /\ last.rows = 0

\* C1: draw_samples on an instance on which fit was never called raises the
\* not-fitted error and returns no samples, unless the instance is a
\* ScipyDistribution constructed with a family and at least one parameter,
\* which draws from the family; the error is a ValueError for
\* ScipyDistribution and a RuntimeError for the two other variants.
C1_DrawBeforeFit ==
    (last.op = "draw_samples" /\ ~last.was_fitted) =>
        IF IsScipy /\ model.ctor_distribution # None /\ model.ctor_parameters # <<>>
        THEN /\ last.raised.why # "not fit"
             /\ last.raised = NoError => last.rows >= 1
        ELSE /\ last.raised = Error(IF IsScipy THEN "ValueError" ELSE "RuntimeError",
                                    "not fit")
             /\ last.rows = 0

C1_Witness ==
    /\ last.op = "draw_samples" /\ ~last.was_fitted
    /\ IsScipy /\ model.ctor_parameters # <<>> /\ model.ctor_distribution = None
    /\ last.raised = Error("ValueError", "not fit")

\* C2: the instance clone() returns holds no parameters estimated by fit,
\* no stored data and no fitted mixture.
C2_CloneHoldsNothingEstimated ==
    last.op = "clone" =>
        /\ ~(model.estimated /\ model.parameters # <<>>)
        /\ model.data = <<>>
        /\ model.gmm_model = <<>>

\* C3: fit on a ScipyDistribution constructed with at least one parameter
\* leaves its family and its Parameter Set as they were.
C3_FitWithParametersIsNoOp ==
    (last.op = "fit" /\ IsScipy /\ model.ctor_parameters # <<>>) =>
        ~last.changed_family /\ ~last.changed_parameters

\* C4 as stated: every fit call on a ScipyDistribution constructed without
\* family and parameters runs the family search.
C4_EveryFitSearches ==
    (last.op = "fit" /\ AutoSelecting) => last.searched

\* C4: on a ScipyDistribution constructed without family and parameters a
\* fit call runs the family search exactly when the instance holds no
\* family yet, and then adopts the search's family and parameters; once a
\* family is held, a fit call keeps it and sets the Parameter Set to that
\* family's estimate for the samples of the call.
C4_SearchWhileNoFamily ==
    (last.op = "fit" /\ AutoSelecting) =>
        /\ last.searched <=> ~last.had_family
        /\ ~last.searched => ~last.changed_family
        /\ last.raised = NoError =>
              /\ model.distribution \in ContinuousNames
              /\ \/ model.parameters = Estimated(model.distribution, last.X)
                 \/ /\ last.searched
                    /\ model.distribution = "norm"
                    /\ model.parameters = p_loc0_scale1
        /\ last.raised # NoError => ~last.changed_family /\ ~last.changed_parameters

C4_Witness ==
    /\ last.op = "fit" /\ AutoSelecting
    /\ ~last.searched /\ last.raised = NoError /\ last.changed_parameters

\* C5 as stated: whenever a ScipyDistribution holds a family of the catalogs
\* and a Parameter Set, the keys of the set are the family's declared names,
\* in order.
C5_KeysAlwaysDeclared ==
    (IsScipy /\ model.distribution \in ContinuousNames \cup {"poisson"}
            /\ model.parameters # <<>>) =>
        dict_keys(model.parameters) = Declared(model.distribution)

\* C5: whenever a ScipyDistribution holds a Parameter Set that fit produced,
\* the keys of the set are the declared shape-parameter names of its family
\* followed by loc (discrete) or loc, scale (continuous), in this order.
C5_EstimatedKeysDeclared ==
    (IsScipy /\ model.estimated /\ model.parameters # <<>>) =>
        /\ model.distribution # None
        /\ dict_keys(model.parameters) = Declared(model.distribution)

C5_Witness ==
    /\ IsScipy /\ model.estimated /\ model.distribution = "beta"
    /\ dict_keys(model.parameters) = <<s_a, s_b, s_loc, s_scale>>

(***************************************************************************)
(* The searches.                                                           *)
(***************************************************************************)
SelDone == selOut.state = "done"
MixDone == mixOut.state = "done"

\* What the i-th family of the catalog meets in the search of selIn.
Met(i) == selIn.env[CatalogOrder[i]]
\* Its parameters were estimated; its divergence was estimated; it was
\* accepted as good enough; a failure of it is not a ValueError of its fit.
FitOk(i) == Met(i).fit = ""
Scored(i) == FitOk(i) /\ Met(i).rvs = "" /\ Met(i).kl = ""
Accepted(i) == Scored(i) /\ Met(i).divergence < divergence_threshold
Unabsorbed(i) == ~Scored(i) /\ Met(i).fit # "ValueError"
UnabsorbedError(i) ==
    IF Met(i).fit # "" THEN Error(Met(i).fit, "fit")
    ELSE IF Met(i).rvs # "" THEN Error(Met(i).rvs, "rvs")
    ELSE Error(Met(i).kl, "kl")
Families == 1 .. Len(CatalogOrder)

\* C6: the search visits the catalog in insertion order and leaves the loop
\* early exactly at the first family whose divergence is strictly below the
\* threshold, returning that family with its fitted parameters; no later
\* family is fitted or scored.
C6_EarlyExit ==
    SelDone =>
        LET fitted == selOut.run.fitted
            n == Len(fitted)
        IN  /\ n <= Len(CatalogOrder)
            /\ fitted = SubSeq(CatalogOrder, 1, n)
            /\ \A k \in 1 .. Len(selOut.run.scored) :
                  \E i \in 1 .. n : selOut.run.scored[k] = fitted[i]
            /\ \A i \in 1 .. n :
                  Accepted(i) =>
                      /\ n = i
                      /\ selOut.result.raised = NoError
                      /\ selOut.result.distribution = CatalogOrder[i]
                      /\ selOut.result.parameters = Estimated(CatalogOrder[i], selIn.X)
            /\ (n < Len(CatalogOrder) /\ selOut.result.raised = NoError) => Accepted(n)

C6_Witness ==
    /\ SelDone
    /\ Len(selOut.run.fitted) = 3 /\ Accepted(3)
    /\ selOut.result.distribution = "t"
    /\ Scored(1) /\ Met(1).divergence = divergence_threshold

\* The number of candidate counts of the search of mixIn, and the score of
\* the p-th of them (candidate count p + 1).
Total == NumCandidates(mixIn.rows)
Score(p) == mixIn.outcomes[p].coefficient
Failed(p) == mixIn.outcomes[p].kmeans # "" \/ mixIn.outcomes[p].silhouette # ""
FailedKind(p) ==
    IF mixIn.outcomes[p].kmeans # "" THEN mixIn.outcomes[p].kmeans
    ELSE mixIn.outcomes[p].silhouette
\* The p-th candidate improves on the best score seen before it, 0 at first.
Improves(p) == Score(p) > Max({0} \cup {Score(q) : q \in 1 .. p - 1})
NumScored == Len(mixOut.run.scored)
\* The position of the best candidate the search tracks, 0 when none improved.
BestPosition ==
    IF \E p \in 1 .. NumScored : Improves(p)
    THEN Max({p \in 1 .. NumScored : Improves(p)})
    ELSE 0
Stagnated(p) == p >= 3 /\ \A q \in p - 2 .. p : ~Improves(q)

\* C7: the component search scores the candidates 2, 3, ... in order and
\* stops as soon as 3 consecutive candidates failed to improve on the best
\* score seen (an equal score does not improve, an improving one restarts the
\* count), so it scores at most 3 candidates past the best one; short of a
\* failure it stops no earlier.
C7_PlateauStop ==
    MixDone =>
        /\ mixOut.run.scored = [p \in 1 .. NumScored |-> p + 1]
        /\ NumScored <= Total
        /\ \A p \in 1 .. NumScored : ~Failed(p)
        /\ NumScored <= BestPosition + 3
        /\ \A p \in 1 .. NumScored - 1 : ~Stagnated(p)
        /\ (NumScored < Total /\ ~Failed(NumScored + 1)) => Stagnated(NumScored)
        /\ mixOut.run.num_best_in_succession = NumScored - BestPosition

C7_Witness ==
    /\ MixDone
    /\ Total = 5 /\ NumScored = 4 /\ BestPosition = 1
    /\ Score(2) = Score(1)

\* C8 as stated: no failure inside a search reaches the caller of fit.
C8_NoSearchFailureReachesCaller ==
    /\ SelDone => selOut.fit.raised = NoError
    /\ MixDone => mixOut.fit.raised = NoError

\* C8: in the family search only a ValueError of a candidate's parameter
\* estimation is absorbed (the family is skipped and the next one tried);
\* in the component search only a ValueError of clustering or scoring is
\* absorbed (the search stops and the best count so far is used). Any other
\* failure met before the search ends (another error kind, or an error of
\* sample generation or of divergence estimation) reaches the caller of
\* fit, which then leaves the instance unfitted.
C8_OnlyValueErrorAbsorbed ==
    /\ SelDone =>
         LET stops == {i \in Families : Accepted(i) \/ Unabsorbed(i)}
             first == Min(stops)
             raises == stops # {} /\ Unabsorbed(first)
         IN  /\ selOut.fit.raised # NoError <=> raises
             /\ raises =>
                  /\ selOut.fit.raised = UnabsorbedError(first)
                  /\ selOut.fit.self.distribution = None
                  /\ selOut.fit.self.parameters = <<>>
             /\ \A i \in 1 .. Len(selOut.run.fitted) :
                  Met(i).fit = "ValueError" =>
                      i < Len(selOut.run.fitted) \/ i = Len(CatalogOrder)
    /\ MixDone =>
         LET reached == NumScored < Total /\ ~Stagnated(NumScored)
             raises == reached /\ Failed(NumScored + 1)
                           /\ FailedKind(NumScored + 1) # "ValueError"
         IN  /\ mixOut.fit.raised # NoError <=> raises
             /\ raises =>
                  /\ mixOut.fit.raised.kind = FailedKind(NumScored + 1)
                  /\ mixOut.fit.self.gmm_model = <<>>
             /\ (reached /\ Failed(NumScored + 1) /\ ~raises) =>
                  /\ mixOut.fit.self.gmm_model # <<>>
                  /\ mixOut.fit.self.gmm_model[1] = BestPosition + 1

C8_Witness ==
    /\ SelDone
    /\ Met(1).fit = "ValueError" /\ Met(2).rvs = "ValueError"
    /\ selOut.fit.raised = Error("ValueError", "rvs")
    /\ Len(selOut.run.fitted) = 2

\* C9: when no family is accepted as good enough, the search returns, among
\* the families whose parameters were estimated, the one of the smallest
\* divergence, the earliest in catalog order among equals, with its fitted
\* parameters; when the estimation fails for every family it returns the
\* normal family with loc = 0, scale = 1.
C9_SmallestDivergence ==
    (SelDone /\ selOut.result.raised = NoError /\ \A i \in Families : ~Accepted(i)) =>
        LET ok == {i \in Families : FitOk(i)}
            best == CHOOSE i \in ok : \A j \in ok :
                        \/ Met(i).divergence < Met(j).divergence
                        \/ Met(i).divergence = Met(j).divergence /\ i <= j
        IN  IF ok = {}
            THEN /\ selOut.result.distribution = "norm"
                 /\ selOut.result.parameters = p_loc0_scale1
            ELSE /\ selOut.result.distribution = CatalogOrder[best]
                 /\ selOut.result.parameters = Estimated(CatalogOrder[best], selIn.X)

C9_Witness ==
    /\ SelDone /\ selOut.result.raised = NoError
    /\ \A i \in Families : ~Accepted(i)
    /\ ~FitOk(1) /\ FitOk(2) /\ FitOk(3) /\ FitOk(6)
    /\ Met(2).divergence = 20 /\ Met(3).divergence = 10 /\ Met(6).divergence = 10
    /\ selOut.result.distribution = "t"

\* C10 as stated: whenever at least one candidate was scored, the count
\* returned is a scored candidate whose score is the maximum of the scores.
C10_ReturnsBestScored ==
    (MixDone /\ mixOut.result.raised = NoError /\ NumScored >= 1) =>
        /\ mixOut.result.value - 1 \in 1 .. NumScored
        /\ Score(mixOut.result.value - 1) = Max({Score(p) : p \in 1 .. NumScored})

\* C10: the component search returns 1 when no candidate was scored or no
\* scored candidate has a score above 0; otherwise it returns the first
\* scored candidate whose score is the maximum of the scores.
C10_ReturnsBestAboveZero ==
    (MixDone /\ mixOut.result.raised = NoError) =>
        LET scores == {Score(p) : p \in 1 .. NumScored}
        IN  IF NumScored = 0 \/ Max(scores) <= 0
            THEN mixOut.result.value = 1
            ELSE mixOut.result.value - 1
                     = Min({p \in 1 .. NumScored : Score(p) = Max(scores)})

C10_Witness ==
    /\ MixDone /\ mixOut.result.raised = NoError
    /\ NumScored = 3
    /\ \A p \in 1 .. NumScored : Score(p) < 0
    /\ mixOut.result.value = 1

====
